---- MODULE Spec2Model ----
(***************************************************************************)
(* State-machine model of the readwise-tools command line scripts.         *)
(*                                                                         *)
(* One behaviour is a sequence of runs of one script against one source    *)
(* collection.  A run is the script's main(), cut at its external effects: *)
(* the configuration check, the load of the state file, the fetch, one     *)
(* step per sink call, one step per state-file append, the summary line.   *)
(* The process can be killed between any two steps (Crash).                *)
(***************************************************************************)
EXTENDS Integers, Sequences, FiniteSets, TLC

\* ---------------------------------------------------------------- bounds
MaxDocs == 2      \* documents in the source collection
MaxRuns == 2      \* consecutive runs of the script

\* ------------------------------------------------------------- constants
\* A missing identifier: bookmark.get('id') is None, no 'id' attribute.
NoId == "<missing>"
\* No value given for an optional command line argument (argparse None).
NoArg == "<none>"

SyncScripts == {"mastodon", "pocketcasts", "todoist"}
\* The scripts that define a --dry-run flag; the sync scripts parse no
\* arguments at all.
DryRunScripts == {"tag_filter", "open_links", "export_links", "feed_stats"}
\* The scripts at the top of the repository, kept beside the package:
\* readwise-tag-later.py, readwise-open-links.py, pocketcasts-to-readwise.py.
LegacyScripts == {"tag_later", "open_links_old", "pocketcasts_old"}
Scripts == SyncScripts \cup DryRunScripts \cup LegacyScripts

\* readwise-open-links.py: islice(documents, 0, 100)
ISLICE_LIMIT == 100

\* Identifiers a source item can carry: two real ones, the empty string and
\* a missing one.
Ids == {"a", "b", "", NoId}

\* Tag lists of a document as the source returns them (the keys of d.tags,
\* in order).  An empty list also stands for an absent or None attribute:
\* every use in the code is guarded by "hasattr(d, 'tags') and d.tags".
TodoistTagLists == {<<>>, <<"todoist">>}
TagFilterTagLists == {<<>>, <<"x">>, <<"review">>, <<"x", "review">>}
LinkTagLists == {<<>>, <<"x">>}

\* created: "recent" (created_at >= cutoff), "old" (created_at < cutoff).
Doc(id, tags, category, location, created) ==
    [id |-> id, tags |-> tags, category |-> category, location |-> location,
     created |-> created]

\* The documents a collection of a sync script's source can hold.  The
\* same identifier may occur twice in a batch.
SourceDocs(s) ==
    IF s = "todoist"
    THEN {Doc(i, t, "article", "later", "recent") : i \in Ids, t \in TodoistTagLists}
    ELSE {Doc(i, <<>>, "article", "later", "recent") : i \in Ids}

\* The attributes of a Reader document the other scripts read.
ReaderDocs(s) ==
    CASE s = "tag_filter" ->
           {Doc("", t, c, l, "recent") :
                t \in TagFilterTagLists, c \in {"article", "video"},
                l \in {"later", "archive"}}
      [] s = "feed_stats" ->
           {Doc("", <<>>, c, l, r) :
                c \in {"rss", "article"}, l \in {"later", "archive"},
                r \in {"recent", "old"}}
      [] OTHER ->
           {Doc("", t, "article", l, "recent") :
                t \in LinkTagLists, l \in {"later", "archive"}}

\* Reader gives every document its own id.
PosIds == <<"a", "b", "c", "d">>

SeqsUpTo(S, n) == UNION {[1..k -> S] : k \in 0..n}

Sources(s) ==
    IF s \in SyncScripts \cup {"pocketcasts_old"}
    THEN SeqsUpTo(SourceDocs(s), MaxDocs)
    ELSE {[i \in 1..Len(f) |-> [f[i] EXCEPT !.id = PosIds[i]]] :
              f \in SeqsUpTo(ReaderDocs(s), MaxDocs)}

\* The parsed command line.
Args(dry_run, location, category, has_tag, add_tag, tag, output) ==
    [dry_run |-> dry_run, location |-> location, category |-> category,
     has_tag |-> has_tag, add_tag |-> add_tag, tag |-> tag, output |-> output]

ArgsOf(s) ==
    CASE s \in SyncScripts ->
           {Args(FALSE, NoArg, NoArg, NoArg, NoArg, NoArg, NoArg)}
      [] s = "tag_filter" ->
           {Args(d, "later", c, h, "review", NoArg, NoArg) :
                d \in BOOLEAN, c \in {<<>>, <<"article">>}, h \in {NoArg, "x"}}
      [] s = "open_links" ->
           {Args(d, NoArg, NoArg, NoArg, NoArg, "x", NoArg) : d \in BOOLEAN}
      [] s = "export_links" ->
           {Args(d, NoArg, NoArg, NoArg, NoArg, "x", o) :
                d \in BOOLEAN, o \in {NoArg, "links.md"}}
      [] s = "feed_stats" ->
           {Args(d, l, "rss", NoArg, NoArg, NoArg, NoArg) :
                d \in BOOLEAN, l \in {"all", "later"}}
      [] s \in {"tag_later", "open_links_old"} ->
           {Args(FALSE, NoArg, NoArg, NoArg, NoArg, "x", NoArg)}
      [] s = "pocketcasts_old" ->
           {Args(FALSE, NoArg, NoArg, NoArg, NoArg, NoArg, NoArg)}

Range(s) == {s[i] : i \in 1..Len(s)}

RECURSIVE SelectSeq2(_, _)
\* [d for d in s if Test(d)] with Test given as the set of passing elements
SelectSeq2(s, pass) ==
    IF s = <<>> THEN <<>>
    ELSE IF Head(s) \in pass
         THEN <<Head(s)>> \o SelectSeq2(Tail(s), pass)
         ELSE SelectSeq2(Tail(s), pass)

VARIABLES
    script,           \* which script this behaviour runs
    env,              \* TRUE iff every required credential is set
    args,             \* the parsed command line
    source,           \* the source collection (documents on the server)
    honoursTag,       \* TRUE iff the server applies the "tag" parameter
    STATE_FILE,       \* the lines of the state file, in file order
    run,              \* number of the current run
    pc,               \* position of the run in main()
    crashpc,          \* position at which the process was killed
    transferred_ids,  \* the set loaded from the state file at start
    yielded,          \* what the source delivered before it ended or raised
    fetchErr,         \* TRUE iff the source raised during the fetch
    documents,        \* the batch the loop works on
    idx,              \* index of the loop's current item
    sent,             \* forward attempts of this run, in order
    skipped,          \* indices classified "already transferred"
    new_transfers,    \* the run's counter (success_count, opened_count)
    error_count,      \* tag_filter: updates answered with an error status
    reported,         \* ids the run printed as acted on / to be acted on
    opened,           \* ids whose URL was opened in a browser tab
    outfile,          \* lines written to the --output file
    log,              \* kinds of the lines printed in this run
    summary,          \* numbers printed by the summary line
    tagged_before,    \* history: keys forwarded with success in earlier runs
    source_at_start,  \* history: the source collection when the run started
    swept_before,     \* history: an earlier run was Complete
    effects,          \* what the run has touched: network, state file
    fetches,          \* feed statistics: what each location's fetch yielded
    stat_docs,        \* feed statistics: the documents given to process_documents
    stat_args,        \* feed statistics: args.min_articles, args.sort_by
    feed_stats,       \* feed statistics: the result of process_documents
    table,            \* feed statistics: the rows display_stats prints
    spc               \* feed statistics: "input", "processed", "displayed", "error"

\* fixed for the whole behaviour
conf == <<script, env, args, honoursTag>>
\* what outlives a process
world == <<source, STATE_FILE, outfile>>
\* the process's memory and its output
proc == <<transferred_ids, yielded, fetchErr, documents, idx, sent, skipped,
          new_transfers, error_count, reported, opened, log, summary, effects,
          fetches>>

\* history variables, written when a run starts
hist == <<tagged_before, source_at_start, swept_before>>

\* the aggregator of readwise-feed-stats
statv == <<stat_docs, stat_args, feed_stats, table, spc>>

vars == <<conf, world, proc, run, pc, crashpc, hist, statv>>

NoSummary == [count |-> -1, total |-> -1]

\* ------------------------------------------------------------ state file

\* line.strip() on the identifiers of the model: none has surrounding
\* white space, so a line is its identifier.
Strip(line) == line

\* load_transferred_*: set(line.strip() for line in f if line.strip());
\* a file that does not exist is the empty sequence of lines.
load_transferred(file) ==
    {Strip(file[i]) : i \in {j \in 1..Len(file) : Strip(file[j]) # ""}}

\* mutant: the write is lost
append_transferred_lost(file, id) == file

\* mutant: the file is opened with 'w', the write replaces its content
append_transferred_rewrite(file, id) == <<id>>

\* append_transferred_*: f.write(id + '\n')
append_transferred(file, id) == Append(file, id)

\* ------------------------------------------------------- dedup key of a doc

\* mastodon: bookmark.get('id'); pocketcasts: ep.uuid;
\* todoist: str(getattr(document, 'id', 'unknown'))
document_id(s, d) ==
    IF s = "todoist" /\ d.id = NoId THEN "unknown" ELSE d.id

\* mutant: the membership test is dropped
is_new_always(key, ids) == TRUE

\* "status_id not in transferred_ids"
is_new(key, ids) == key \notin ids

\* --------------------------------------------------------------- the source

HasTag(d, tag) == \E i \in 1..Len(d.tags) : d.tags[i] = tag

\* What the source would deliver for the script's request if nothing fails.
\* todoist asks for params={"tag": "todoist"}; a server that does not apply
\* the parameter answers with the whole collection.
\* The Reader scripts ask for one location.
Available(s, a, src, honours) ==
    CASE s = "todoist" ->
           IF honours
           THEN SelectSeq2(src, {d \in Range(src) : HasTag(d, "todoist")})
           ELSE src
      [] s \in {"mastodon", "pocketcasts", "pocketcasts_old"} -> src
      [] s = "open_links_old" ->
           \* params location=archive, updatedAfter=now - 14 days
           SelectSeq2(src, {d \in Range(src) : d.location = "archive"})
      [] s = "tag_filter" ->
           SelectSeq2(src, {d \in Range(src) : d.location = a.location})
      [] OTHER ->
           SelectSeq2(src, {d \in Range(src) : d.location = "later"})

\* mutant: what the source delivered before it raised is dropped
fetched_batch_dropped(s, got, err) == IF err THEN <<>> ELSE got

\* The batch main() has in hand after the fetch, when the source delivered
\* got and then raised (err) or ended (~err).
\*   mastodon: get_mastodon_bookmarks lets raise_for_status() propagate, the
\*             local list is lost;
\*   todoist:  list(documents) is inside the try, the except returns [];
\*   pocketcasts: client.starred raises out of main;
\*   open_links, export_links: list(rw.get_documents(...)) raises;
\*   tag_filter, feed_stats: the documents are appended one by one inside
\*             the try, the except keeps them.
fetched_batch(s, got, err) ==
    IF err /\ s \notin {"tag_filter", "feed_stats"} THEN <<>> ELSE got

\* ---------------------------------------------------------------- actions

Init ==
    /\ script \in Scripts
    /\ env \in BOOLEAN
    /\ args \in ArgsOf(script)
    /\ source \in Sources(script)
    /\ honoursTag \in (IF script = "todoist" THEN BOOLEAN ELSE {TRUE})
    /\ STATE_FILE = <<>>
    /\ outfile = <<>>
    /\ run = 1
    /\ pc = "start"
    /\ crashpc = "none"
    /\ transferred_ids = {}
    /\ yielded = <<>>
    /\ fetchErr = FALSE
    /\ documents = <<>>
    /\ idx = 1
    /\ sent = <<>>
    /\ skipped = {}
    /\ new_transfers = 0
    /\ error_count = 0
    /\ reported = <<>>
    /\ opened = <<>>
    /\ log = <<>>
    /\ summary = NoSummary
    /\ tagged_before = {}
    /\ source_at_start = source
    /\ swept_before = FALSE
    /\ effects = {}
    /\ fetches = <<>>
    /\ stat_docs = <<>>
    /\ stat_args = [min_articles |-> 1, sort_by |-> "total"]
    /\ feed_stats = <<>>
    /\ table = <<>>
    /\ spc = "input"

\* Every main() begins with "if not (...TOKEN...): print(...); return";
\* readwise-tag-later.py and readwise-open-links.py hand
\* os.getenv("READWISE_TOKEN") to ReadwiseReader untested.
has_config_check(s) == s \notin {"tag_later", "open_links_old"}

\* main(): "if not (... and READWISE_TOKEN): print(...); return"
CheckConfig ==
    /\ pc = "start"
    /\ IF env \/ ~has_config_check(script)
       THEN /\ pc' = (IF script \in SyncScripts THEN "load" ELSE "fetch")
            /\ log' = log
       ELSE /\ pc' = "done"
            /\ log' = Append(log, "missing_env")
    /\ UNCHANGED <<conf, hist, statv, fetches, effects, world, run, crashpc, transferred_ids, yielded,
                   fetchErr, documents, idx, sent, skipped, new_transfers,
                   error_count, reported, opened, summary>>

\* transferred_ids = load_transferred_*()
Load ==
    /\ pc = "load"
    /\ script \in SyncScripts
    /\ transferred_ids' = load_transferred(STATE_FILE)
    /\ pc' = "fetch"
    /\ effects' = effects \cup {"file_read"}
    /\ UNCHANGED <<conf, hist, statv, fetches, world, run, crashpc, yielded, fetchErr, documents,
                   idx, sent, skipped, new_transfers, error_count, reported,
                   opened, log, summary>>

\* get_mastodon_bookmarks() / get_starred_episodes() /
\* get_readwise_documents_with_todoist_tag() and what main() does with the
\* result before the loop.
FetchSync ==
    /\ pc = "fetch"
    /\ script \in SyncScripts
    /\ LET avail == Available(script, args, source, honoursTag) IN
       \E err \in BOOLEAN, k \in 0..Len(avail) :
         /\ ~err => k = Len(avail)
         /\ yielded' = SubSeq(avail, 1, k)
         /\ fetchErr' = err
         /\ LET batch == fetched_batch(script, SubSeq(avail, 1, k), err) IN
            /\ documents' = batch
            /\ CASE script = "mastodon" ->
                      IF err
                      THEN pc' = "done" /\ log' = Append(log, "error")
                      ELSE pc' = "loop" /\ log' = log
                 [] script = "pocketcasts" ->
                      IF err
                      THEN pc' = "died" /\ log' = Append(log, "traceback")
                      ELSE pc' = "loop" /\ log' = log
                 [] script = "todoist" ->
                      LET l1 == IF err THEN Append(log, "fetch_error") ELSE log IN
                      IF batch = <<>>
                      THEN pc' = "done" /\ log' = Append(l1, "no_documents")
                      ELSE pc' = "loop" /\ log' = l1
    /\ idx' = 1
    /\ effects' = effects \cup {"network"}
    /\ UNCHANGED <<conf, hist, statv, fetches, world, run, crashpc, transferred_ids, sent, skipped,
                   new_transfers, error_count, reported, opened, summary>>

\* The else branch of the loop body: "Skipping already transferred ..."
Skip ==
    /\ pc = "loop"
    /\ script \in SyncScripts
    /\ idx <= Len(documents)
    /\ ~is_new(document_id(script, documents[idx]), transferred_ids)
    /\ skipped' = skipped \cup {idx}
    /\ log' = Append(log, "skip")
    /\ idx' = idx + 1
    /\ UNCHANGED <<conf, hist, statv, fetches, effects, world, run, pc, crashpc, transferred_ids, yielded,
                   fetchErr, documents, sent, new_transfers, error_count,
                   reported, opened, summary>>

\* One call of a sink, as the loop sees it.
Attempt(i, key, ok, raised, tags) ==
    [i |-> i, key |-> key, ok |-> ok, raised |-> raised, tags |-> tags]

\* Where main() goes after the forward returned.
\*   mastodon, pocketcasts: send_*_to_readwise returns nothing, the append
\*     is the next statement whatever happened;
\*   todoist: "if task:" appends, else prints the failure and moves on.
after_forward(s, ok) ==
    IF s = "todoist" /\ ~ok THEN "loop" ELSE "append"

\* send_bookmark_to_readwise / send_episode_to_readwise / create_todoist_task:
\* one call of the sink, which succeeds or fails; the failure is caught
\* inside the function.
Forward ==
    /\ pc = "loop"
    /\ script \in SyncScripts
    /\ idx <= Len(documents)
    /\ LET key == document_id(script, documents[idx]) IN
       /\ is_new(key, transferred_ids)
       /\ \E ok \in BOOLEAN :
            \* pocketcasts: "https://pca.st/episode/" + None raises in the try
            /\ (script = "pocketcasts" /\ key = NoId) => ~ok
            /\ sent' = Append(sent, Attempt(idx, key, ok, FALSE, <<>>))
            /\ pc' = after_forward(script, ok)
            /\ IF pc' = "loop"
               THEN /\ idx' = idx + 1
                    /\ log' = log \o <<"failed", "failed_task">>
               ELSE /\ idx' = idx
                    /\ log' = Append(log, IF ok THEN "saved" ELSE "failed")
    /\ effects' = effects \cup {"network"}
    /\ UNCHANGED <<conf, hist, statv, fetches, world, run, crashpc, transferred_ids, yielded,
                   fetchErr, documents, skipped, new_transfers, error_count,
                   reported, opened, summary>>

\* append_transferred_*(id); new_transfers += 1
AppendId ==
    /\ pc = "append"
    /\ script \in SyncScripts
    /\ LET key == document_id(script, documents[idx]) IN
       IF key = NoId
       THEN \* None + '\n' raises TypeError: caught by main's except in
            \* mastodon, uncaught in pocketcasts
            /\ pc' = (IF script = "mastodon" THEN "done" ELSE "died")
            /\ log' = Append(log, IF script = "mastodon" THEN "error" ELSE "traceback")
            /\ UNCHANGED <<STATE_FILE, new_transfers, idx>>
       ELSE /\ STATE_FILE' = append_transferred(STATE_FILE, key)
            /\ new_transfers' = new_transfers + 1
            /\ idx' = idx + 1
            /\ pc' = "loop"
            /\ log' = (IF script = "todoist" THEN Append(log, "task_created") ELSE log)
    /\ effects' = effects \cup {"file_write"}
    /\ UNCHANGED <<conf, hist, statv, fetches, source, outfile, run, crashpc, transferred_ids,
                   yielded, fetchErr, documents, sent, skipped, error_count,
                   reported, opened, summary>>

\* print(f"Transferred {new_transfers} new ... Total tracked: {len(...) + new_transfers}")
SummarySync ==
    /\ pc = "loop"
    /\ script \in SyncScripts
    /\ idx > Len(documents)
    /\ summary' = [count |-> new_transfers,
                   total |-> Cardinality(transferred_ids) + new_transfers]
    /\ log' = Append(log, "summary")
    /\ pc' = "done"
    /\ UNCHANGED <<conf, hist, statv, fetches, effects, world, run, crashpc, transferred_ids, yielded,
                   fetchErr, documents, idx, sent, skipped, new_transfers,
                   error_count, reported, opened>>

\* ------------------------------------------------------- readwise-tag-filter

\* "if args.category: [d for d in all_documents if hasattr(d, 'category')
\*                     and d.category in args.category]"
category_filter(docs, category) ==
    IF category # <<>>
    THEN SelectSeq2(docs, {d \in Range(docs) : d.category \in Range(category)})
    ELSE docs

\* "if args.has_tag: [d for d in filtered if ... args.has_tag in d.tags]"
has_tag_filter(docs, has_tag) ==
    IF has_tag # NoArg
    THEN SelectSeq2(docs, {d \in Range(docs) : HasTag(d, has_tag)})
    ELSE docs

\* mutant: documents that carry the target tag are not skipped
to_tag_all(docs, add_tag) == docs

\* "to_tag = [d for d in filtered if not (... args.add_tag in d.tags)]"
to_tag(docs, add_tag) ==
    SelectSeq2(docs, {d \in Range(docs) : ~HasTag(d, add_tag)})

\* mutant: the update carries the target tag alone
new_tags_only(d, add_tag) == <<add_tag>>

\* "new_tags = existing_tags + [args.add_tag]"
new_tags(d, add_tag) == d.tags \o <<add_tag>>

\* PATCH /update/{document_id}/ with {"tags": tags}, answered with 200
server_update(src, id, tags) ==
    [i \in 1..Len(src) |->
        IF src[i].id = id THEN [src[i] EXCEPT !.tags = tags] ELSE src[i]]

\* The fetch loop of main() and the three filters that follow it.
FetchTag ==
    /\ pc = "fetch"
    /\ script = "tag_filter"
    /\ LET avail == Available(script, args, source, honoursTag) IN
       \E err \in BOOLEAN, k \in 0..Len(avail) :
         /\ ~err => k = Len(avail)
         /\ yielded' = SubSeq(avail, 1, k)
         /\ fetchErr' = err
         /\ LET all_documents == fetched_batch(script, SubSeq(avail, 1, k), err)
                filtered == has_tag_filter(
                                category_filter(all_documents, args.category),
                                args.has_tag)
                todo == to_tag(filtered, args.add_tag)
                l1 == IF err THEN Append(log, "warn_pagination") ELSE log
                l2 == IF Len(filtered) - Len(todo) > 0
                      THEN Append(l1, "already_tagged") ELSE l1
            IN IF err /\ all_documents = <<>>
               THEN \* "else: raise", caught by main's except
                    /\ documents' = <<>>
                    /\ log' = Append(log, "error")
                    /\ pc' = "done"
               ELSE /\ documents' = todo
                    /\ IF todo = <<>>
                       THEN log' = Append(l2, "no_documents") /\ pc' = "done"
                       ELSE log' = l2 /\ pc' = "loop"
    /\ idx' = 1
    /\ effects' = effects \cup {"network"}
    /\ UNCHANGED <<conf, hist, statv, fetches, world, run, crashpc, transferred_ids, sent, skipped,
                   new_transfers, error_count, reported, opened, summary>>

\* mutant: the dry-run flag is ignored
live_always(a) == TRUE

\* tag_filter: "if not args.dry_run:"; open_links: the else branch of
\* "if args.dry_run:"
live(a) == ~a.dry_run

\* The answers requests.patch can give: 200, another status, an exception.
PatchResults == {"ok", "status", "raise"}

\* One pass of "for i, d in enumerate(to_tag, 1)".
TagItem ==
    /\ pc = "loop"
    /\ script = "tag_filter"
    /\ idx <= Len(documents)
    /\ LET d == documents[idx]
           tags == new_tags(d, args.add_tag)
       IN IF ~live(args)
          THEN /\ reported' = Append(reported, d.id)
               /\ idx' = idx + 1
               /\ UNCHANGED <<source, sent, new_transfers, error_count, log, pc>>
          ELSE \E res \in PatchResults :
               /\ sent' = Append(sent, Attempt(idx, d.id, res = "ok", res = "raise", tags))
               /\ reported' = reported
               /\ CASE res = "ok" ->
                         /\ source' = server_update(source, d.id, tags)
                         /\ new_transfers' = new_transfers + 1
                         /\ idx' = idx + 1
                         /\ UNCHANGED <<error_count, log, pc>>
                    [] res = "status" ->
                         /\ error_count' = error_count + 1
                         /\ log' = Append(log, "failed")
                         /\ idx' = idx + 1
                         /\ UNCHANGED <<source, new_transfers, pc>>
                    [] res = "raise" ->
                         \* requests.patch raised: main's except
                         /\ log' = Append(log, "error")
                         /\ pc' = "done"
                         /\ UNCHANGED <<source, new_transfers, error_count, idx>>
    /\ effects' = effects \cup (IF live(args) THEN {"network"} ELSE {})
    /\ UNCHANGED <<conf, hist, statv, fetches, STATE_FILE, outfile, run, crashpc, transferred_ids,
                   yielded, fetchErr, documents, skipped, opened, summary>>

\* "Dry run complete: N documents would be tagged" / "Tagged N documents"
SummaryTag ==
    /\ pc = "loop"
    /\ script = "tag_filter"
    /\ idx > Len(documents)
    /\ summary' = [count |-> IF args.dry_run THEN Len(documents) ELSE new_transfers,
                   total |-> error_count]
    /\ log' = Append(log, "summary")
    /\ pc' = "done"
    /\ UNCHANGED <<conf, hist, statv, fetches, effects, world, run, crashpc, transferred_ids, yielded,
                   fetchErr, documents, idx, sent, skipped, new_transfers,
                   error_count, reported, opened>>

\* ------------------------------------ readwise-open-links, -export-links

\* mutant: the local tag filter is dropped
tag_filter_none(docs, tag) == docs

\* "[d for d in all_documents if hasattr(d, 'tags') and d.tags
\*                               and tag_to_filter in d.tags]"
tag_filter(docs, tag) ==
    SelectSeq2(docs, {d \in Range(docs) : HasTag(d, tag)})

DocIds(docs) == [i \in 1..Len(docs) |-> docs[i].id]

\* export_links, feed_stats: "if args.dry_run: print(configuration); return"
DryRunConfig ==
    /\ pc = "fetch"
    /\ script \in {"export_links", "feed_stats"}
    /\ args.dry_run
    /\ log' = Append(log, "dry_run_config")
    /\ pc' = "done"
    /\ UNCHANGED <<conf, hist, statv, fetches, effects, world, run, crashpc, transferred_ids, yielded,
                   fetchErr, documents, idx, sent, skipped, new_transfers,
                   error_count, reported, opened, summary>>

\* all_documents = list(rw.get_documents(params={"location": "later"}))
\* and the local tag filter.
FetchLinks ==
    /\ pc = "fetch"
    /\ script \in {"open_links", "export_links"}
    /\ script = "export_links" => ~args.dry_run
    /\ LET avail == Available(script, args, source, honoursTag) IN
       \E err \in BOOLEAN, k \in 0..Len(avail) :
         /\ ~err => k = Len(avail)
         /\ yielded' = SubSeq(avail, 1, k)
         /\ fetchErr' = err
         /\ LET all_documents == fetched_batch(script, SubSeq(avail, 1, k), err) IN
            IF err
            THEN /\ documents' = <<>>
                 /\ log' = Append(log, "error")
                 /\ pc' = "done"
            ELSE /\ documents' = tag_filter(all_documents, args.tag)
                 /\ log' = log
                 /\ pc' = (IF script = "open_links" THEN "loop" ELSE "write")
    /\ idx' = 1
    /\ effects' = effects \cup {"network"}
    /\ UNCHANGED <<conf, hist, statv, fetches, world, run, crashpc, transferred_ids, sent, skipped,
                   new_transfers, error_count, reported, opened, summary>>

\* One pass of "for d in documents" of readwise_open_links.main().
OpenItem ==
    /\ pc = "loop"
    /\ script = "open_links"
    /\ idx <= Len(documents)
    /\ LET d == documents[idx] IN
       IF ~live(args)
       THEN /\ reported' = Append(reported, d.id)
            /\ new_transfers' = new_transfers + 1
            /\ idx' = idx + 1
            /\ UNCHANGED <<sent, opened, log, pc>>
       ELSE \E ok \in BOOLEAN :
            /\ sent' = Append(sent, Attempt(idx, d.id, ok, ~ok, <<>>))
            /\ reported' = reported
            /\ IF ok
               THEN /\ opened' = Append(opened, d.id)
                    /\ new_transfers' = new_transfers + 1
                    /\ idx' = idx + 1
                    /\ UNCHANGED <<log, pc>>
               ELSE \* webbrowser.get(BROWSER) raised: main's except
                    /\ log' = Append(log, "error")
                    /\ pc' = "done"
                    /\ UNCHANGED <<opened, new_transfers, idx>>
    /\ UNCHANGED <<conf, hist, statv, fetches, effects, world, run, crashpc, transferred_ids, yielded,
                   fetchErr, documents, skipped, error_count, summary>>

\* "Dry run: Found N documents ..." / "Opened N documents ..."
SummaryOpen ==
    /\ pc = "loop"
    /\ script = "open_links"
    /\ idx > Len(documents)
    /\ summary' = [count |-> new_transfers, total |-> Len(documents)]
    /\ log' = Append(log, "summary")
    /\ pc' = "done"
    /\ UNCHANGED <<conf, hist, statv, fetches, effects, world, run, crashpc, transferred_ids, yielded,
                   fetchErr, documents, idx, sent, skipped, new_transfers,
                   error_count, reported, opened>>

\* The lines of readwise_export_links.main() are built, then written to
\* args.output or printed.
ExportWrite ==
    /\ pc = "write"
    /\ script = "export_links"
    /\ LET lines == DocIds(documents) IN
       IF args.output # NoArg
       THEN \E ok \in BOOLEAN :
            /\ sent' = Append(sent, Attempt(0, args.output, ok, ~ok, <<>>))
            /\ IF ok
               THEN /\ outfile' = lines
                    /\ summary' = [count |-> Len(documents), total |-> Len(documents)]
                    /\ log' = Append(log, "summary")
               ELSE \* open(args.output, 'w') raised: main's except
                    /\ log' = Append(log, "error")
                    /\ UNCHANGED <<outfile, summary>>
            /\ reported' = reported
       ELSE /\ reported' = lines
            /\ UNCHANGED <<outfile, sent, summary, log>>
    /\ pc' = "done"
    /\ UNCHANGED <<conf, hist, statv, fetches, effects, source, STATE_FILE, run, crashpc, transferred_ids,
                   yielded, fetchErr, documents, idx, skipped, new_transfers,
                   error_count, opened>>

\* ---------------------------------------------------- readwise-feed-stats

\* fetch_documents: locations_to_fetch
locations_to_fetch(location) ==
    IF location # "all" THEN <<location>>
    ELSE <<"new", "later", "archive", "feed">>

\* fetch_documents: one pass of "for location in locations_to_fetch";
\* yielded is all_docs.
FetchLocation ==
    /\ pc = "fetch"
    /\ script = "feed_stats"
    /\ ~args.dry_run
    /\ idx <= Len(locations_to_fetch(args.location))
    /\ LET location == locations_to_fetch(args.location)[idx]
           avail == SelectSeq2(source, {d \in Range(source) : d.location = location})
       IN \E err \in BOOLEAN, k \in 0..Len(avail) :
            /\ ~err => k = Len(avail)
            /\ LET location_docs == fetched_batch(script, SubSeq(avail, 1, k), err) IN
               /\ yielded' = yielded \o location_docs
               /\ log' = (IF ~err THEN log
                          ELSE IF location_docs # <<>>
                               THEN Append(log, "warn_pagination")
                               ELSE Append(log, "warn_fetch"))
            /\ fetchErr' = (fetchErr \/ err)
            /\ fetches' = Append(fetches, [location |-> location,
                                           got |-> SubSeq(avail, 1, k),
                                           err |-> err])
    /\ idx' = idx + 1
    /\ effects' = effects \cup {"network"}
    /\ UNCHANGED <<conf, hist, statv, world, run, pc, crashpc, transferred_ids, documents,
                   sent, skipped, new_transfers, error_count, reported,
                   opened, summary>>

\* fetch_documents: "Filter by created_at and category"
stats_filter(docs, category) ==
    SelectSeq2(docs, {d \in Range(docs) :
                          d.created = "recent" /\ d.category = category})

\* The end of fetch_documents and main()'s "if not documents: ... return".
FilterStats ==
    /\ pc = "fetch"
    /\ script = "feed_stats"
    /\ ~args.dry_run
    /\ idx > Len(locations_to_fetch(args.location))
    /\ documents' = stats_filter(yielded, args.category)
    /\ IF documents' = <<>>
       THEN log' = Append(log, "no_documents") /\ pc' = "done"
       ELSE log' = log /\ pc' = "report"
    /\ idx' = 1
    /\ UNCHANGED <<conf, hist, statv, fetches, effects, world, run, crashpc, transferred_ids, yielded,
                   fetchErr, sent, skipped, new_transfers, error_count,
                   reported, opened, summary>>

\* process_documents and display_stats: the report covers the batch.
ReportStats ==
    /\ pc = "report"
    /\ script = "feed_stats"
    /\ reported' = DocIds(documents)
    /\ summary' = [count |-> Len(documents), total |-> Len(documents)]
    /\ log' = Append(log, "summary")
    /\ pc' = "done"
    /\ UNCHANGED <<conf, hist, statv, fetches, effects, world, run, crashpc, transferred_ids, yielded,
                   fetchErr, documents, idx, sent, skipped, new_transfers,
                   error_count, opened>>

\* ------------------------------------------------- the top-level scripts

Min(a, b) == IF a <= b THEN a ELSE b

\* readwise-tag-later.py, readwise-open-links.py: rw.get_documents(...);
\* pocketcasts-to-readwise.py: get_starred_episodes().
\* The Reader generator is consumed by the for loop: the documents it
\* delivers before it raises are handled before the exception ends the
\* process (LegacyEnd).  Without a token the client either refuses to
\* build the request or sends it and gets an error answer.
FetchLegacy ==
    /\ pc = "fetch"
    /\ script \in LegacyScripts
    /\ IF ~env
       THEN \E refused \in BOOLEAN :
            /\ effects' = (IF refused THEN effects ELSE effects \cup {"network"})
            /\ fetchErr' = TRUE
            /\ log' = Append(log, "traceback")
            /\ pc' = "died"
            /\ UNCHANGED <<yielded, documents>>
       ELSE LET avail == Available(script, args, source, honoursTag) IN
            \E err \in BOOLEAN, k \in 0..Len(avail) :
              /\ ~err => k = Len(avail)
              /\ yielded' = SubSeq(avail, 1, k)
              /\ fetchErr' = err
              /\ effects' = effects \cup {"network"}
              /\ IF script = "pocketcasts_old"
                 THEN IF err
                      THEN /\ documents' = <<>>
                           /\ log' = Append(log, "traceback")
                           /\ pc' = "died"
                      ELSE /\ documents' = avail
                           /\ log' = log
                           /\ pc' = "loop"
                 ELSE /\ documents' = SubSeq(avail, 1,
                              IF script = "open_links_old"
                              THEN Min(k, ISLICE_LIMIT) ELSE k)
                      /\ log' = log
                      /\ pc' = "loop"
    /\ idx' = 1
    /\ UNCHANGED <<conf, hist, statv, fetches, world, run, crashpc, transferred_ids, sent,
                   skipped, new_transfers, error_count, reported, opened,
                   summary>>

\* One pass of the for loop of a top-level script.
\*   tag_later: print(d.title)
\*   open_links_old: if tag_to_filter in d.tags.keys(): open_new_tab(...)
\*   pocketcasts_old: send_episode_to_readwise(ep, rw)
LegacyItem ==
    /\ pc = "loop"
    /\ script \in LegacyScripts
    /\ idx <= Len(documents)
    /\ LET d == documents[idx] IN
       CASE script = "tag_later" ->
              /\ reported' = Append(reported, d.id)
              /\ idx' = idx + 1
              /\ UNCHANGED <<sent, opened, log, pc, effects>>
         [] script = "open_links_old" ->
              IF HasTag(d, args.tag)
              THEN \E ok \in BOOLEAN :
                   /\ sent' = Append(sent, Attempt(idx, d.id, ok, ~ok, <<>>))
                   /\ IF ok
                      THEN /\ opened' = Append(opened, d.id)
                           /\ idx' = idx + 1
                           /\ UNCHANGED <<log, pc>>
                      ELSE \* webbrowser.get("firefox") raised
                           /\ log' = Append(log, "traceback")
                           /\ pc' = "died"
                           /\ UNCHANGED <<opened, idx>>
                   /\ UNCHANGED <<reported, effects>>
              ELSE /\ idx' = idx + 1
                   /\ UNCHANGED <<sent, opened, log, pc, reported, effects>>
         [] script = "pocketcasts_old" ->
              \E ok \in BOOLEAN :
                   /\ d.id = NoId => ~ok
                   /\ sent' = Append(sent, Attempt(idx, d.id, ok, FALSE, <<>>))
                   /\ log' = Append(log, IF ok THEN "saved" ELSE "failed")
                   /\ idx' = idx + 1
                   /\ effects' = effects \cup {"network"}
                   /\ UNCHANGED <<reported, opened, pc>>
    /\ UNCHANGED <<conf, hist, statv, fetches, world, run, crashpc, transferred_ids, yielded,
                   fetchErr, documents, skipped, new_transfers, error_count,
                   summary>>

\* The for loop of a top-level script is exhausted, or the generator raises
\* when asked for the next document.
LegacyEnd ==
    /\ pc = "loop"
    /\ script \in LegacyScripts
    /\ idx > Len(documents)
    /\ IF fetchErr /\ ~(script = "open_links_old" /\ Len(yielded) >= ISLICE_LIMIT)
       THEN log' = Append(log, "traceback") /\ pc' = "died"
       ELSE log' = log /\ pc' = "done"
    /\ UNCHANGED <<conf, hist, statv, fetches, world, run, crashpc, transferred_ids, yielded,
                   fetchErr, documents, idx, sent, skipped, new_transfers,
                   error_count, reported, opened, summary, effects>>

Running == pc \notin {"done", "died", "crashed"}

\* The run came to its end by itself, live, with the credentials set, the
\* whole collection fetched and every forward answered with success.
Complete ==
    /\ pc = "done" /\ env /\ ~args.dry_run /\ ~fetchErr
    /\ \A n \in 1..Len(sent) : sent[n].ok

\* The process is killed (power loss, SIGKILL) between two steps.
Crash ==
    /\ Running
    /\ pc' = "crashed"
    /\ crashpc' = pc
    /\ UNCHANGED <<conf, hist, statv, world, proc, run>>

\* The script is started again: a new process, the same source, the same
\* files.
NewRun ==
    /\ ~Running
    /\ run < MaxRuns
    /\ run' = run + 1
    /\ pc' = "start"
    /\ crashpc' = "none"
    /\ transferred_ids' = {}
    /\ yielded' = <<>>
    /\ fetchErr' = FALSE
    /\ documents' = <<>>
    /\ idx' = 1
    /\ sent' = <<>>
    /\ skipped' = {}
    /\ new_transfers' = 0
    /\ error_count' = 0
    /\ reported' = <<>>
    /\ opened' = <<>>
    /\ log' = <<>>
    /\ summary' = NoSummary
    /\ effects' = {}
    /\ fetches' = <<>>
    /\ tagged_before' = tagged_before \cup {sent[n].key : n \in {m \in 1..Len(sent) : sent[m].ok}}
    /\ source_at_start' = source
    /\ swept_before' = (swept_before \/ Complete)
    /\ UNCHANGED <<conf, world, statv>>

Next ==
    \/ CheckConfig
    \/ Load
    \/ FetchSync
    \/ Skip
    \/ Forward
    \/ AppendId
    \/ SummarySync
    \/ FetchTag
    \/ TagItem
    \/ SummaryTag
    \/ DryRunConfig
    \/ FetchLinks
    \/ OpenItem
    \/ SummaryOpen
    \/ ExportWrite
    \/ FetchLocation
    \/ FilterStats
    \/ ReportStats
    \/ FetchLegacy
    \/ LegacyItem
    \/ LegacyEnd
    \/ Crash
    \/ NewRun

Spec == Init /\ [][Next]_vars

\* ------------------------------------------- readwise-feed-stats: the report
\* process_documents and display_stats are functions of the batch that
\* fetch_documents returned and of the command line.  StatsSpec draws the
\* batch and the arguments from bounded sets and applies the two functions
\* in the order of main().

MaxStatDocs == 3

\* created_at: a day of January 2026; 11 January is a Sunday, 12 January the
\* Monday after it.
Days == {11, 12}

\* 0 = Monday; 1 January 2026 is a Thursday.
weekday(day) == (3 + day - 1) % 7

\* created_at.strftime('%Y-W%W'): the year and the week of the year with
\* Monday as the first day of the week.
week_key(day) == <<2026, (day - 1 + 7 - weekday(day)) \div 7>>

StatDoc(site_name, src, url, location, created) ==
    [site_name |-> site_name, source |-> src, url |-> url,
     location |-> location, created |-> created]

\* <<site_name, source, source_url or url>> of the documents of the batch;
\* "" is an attribute that is missing, None or empty.
FeedProfiles ==
    { <<"Blog X", "Reader RSS", "https://example.com/a">>,
      <<"", "538", "https://example.com/a">>,
      <<"", "Reader RSS", "https://example.com/a">>,
      <<"", "", "">> }

\* fetch_documents returns documents that have a created_at only.
StatDocs ==
    { StatDoc(p[1], p[2], p[3], l, d) :
          p \in FeedProfiles, l \in {"later", "archive"}, d \in Days }

SortColumns == {"feed", "total", "weekly_avg", "later_count", "later_pct"}

StatArgs == [min_articles : {1, 2}, sort_by : SortColumns]

\* urlparse(url).netloc
netloc(url) ==
    CASE url = "https://example.com/a" -> "example.com"
      [] OTHER -> ""

extract_domain(url) ==
    IF url = "" THEN "unknown"
    ELSE IF netloc(url) # "" THEN netloc(url) ELSE "unknown"

\* mutant: the placeholder source counts as a feed name
feed_id_placeholder(doc) ==
    IF doc.site_name # "" THEN doc.site_name
    ELSE IF doc.source # "" THEN doc.source
    ELSE extract_domain(doc.url)

\* The feed a document is counted under: site_name, else source unless it is
\* 'Reader RSS', else the domain of its URL.
feed_id(doc) ==
    IF doc.site_name # "" THEN doc.site_name
    ELSE IF doc.source # "" /\ doc.source # "Reader RSS" THEN doc.source
    ELSE extract_domain(doc.url)

\* feed_stats is a dict in insertion order: a sequence of entries.
FeedIndex(stats, f) ==
    IF \E i \in 1..Len(stats) : stats[i].feed_id = f
    THEN CHOOSE i \in 1..Len(stats) : stats[i].feed_id = f
    ELSE 0

\* the defaultdict's fresh entry
new_stats(f) ==
    [feed_id |-> f, total |-> 0, later_count |-> 0, weeks |-> <<>>,
     site_name |-> "", source |-> ""]

\* weeks[key] += 1 on a defaultdict(int)
count_week(weeks, key) ==
    [k \in DOMAIN weeks \cup {key} |->
        IF k \in DOMAIN weeks
        THEN weeks[k] + (IF k = key THEN 1 ELSE 0)
        ELSE 1]

\* mutant: every document is counted as "read later"
count_later_always(doc) == 1

\* stats['later_count'] += 1 for a document in location 'later'
count_later(doc) == IF doc.location = "later" THEN 1 ELSE 0

\* The body of the loop of process_documents for one document: a document
\* whose feed is 'unknown' is passed over with a warning.
count_document(stats, doc) ==
    LET f == feed_id(doc) IN
    IF f = "" \/ f = "unknown" THEN stats
    ELSE LET i0  == FeedIndex(stats, f)
             all == IF i0 = 0 THEN Append(stats, new_stats(f)) ELSE stats
             i   == IF i0 = 0 THEN Len(all) ELSE i0
             e   == all[i]
         IN [all EXCEPT ![i] =
                [feed_id     |-> f,
                 total       |-> e.total + 1,
                 later_count |-> e.later_count + count_later(doc),
                 weeks       |-> count_week(e.weeks, week_key(doc.created)),
                 site_name   |-> IF e.site_name = "" THEN doc.site_name
                                 ELSE e.site_name,
                 source      |-> IF e.source = "" THEN doc.source
                                 ELSE e.source]]

RECURSIVE count_documents(_, _)
count_documents(stats, docs) ==
    IF docs = <<>> THEN stats
    ELSE count_documents(count_document(stats, Head(docs)), Tail(docs))

\* A quotient the code computes in floating point, kept as a fraction.
Frac(num, den) == [num |-> num, den |-> den]

\* stats['weekly_avg'] and stats['later_pct']
aggregates(e) ==
    LET num_weeks == Cardinality(DOMAIN e.weeks) IN
    [feed_id |-> e.feed_id, total |-> e.total, later_count |-> e.later_count,
     weeks |-> e.weeks, site_name |-> e.site_name, source |-> e.source,
     weekly_avg |-> IF num_weeks > 0 THEN Frac(e.total, num_weeks)
                    ELSE Frac(e.total, 1),
     later_pct  |-> IF e.total > 0 THEN Frac(e.later_count * 100, e.total)
                    ELSE Frac(0, 1)]

process_documents(docs, a) ==
    LET counted == count_documents(<<>>, docs)
        all     == [i \in 1..Len(counted) |-> aggregates(counted[i])]
        Enough(e) == e.total >= a.min_articles
    IN SelectSeq(all, Enough)

\* f"{x:.1f}": x rounded to one decimal, in tenths.
format_1f(x) ==
    LET q == (10 * x.num) \div x.den
        r == (10 * x.num) % x.den
    IN IF 2 * r > x.den \/ (2 * r = x.den /\ q % 2 = 1) THEN q + 1 ELSE q

display_name(e) ==
    IF e.site_name # "" THEN e.site_name
    ELSE IF e.source # "" THEN e.source
    ELSE e.feed_id

\* One row of table_data: the five printed cells; feed_id is not printed, it
\* tells the rows of two feeds with the same cells apart.
table_row(e) ==
    [feed_id |-> e.feed_id, feed |-> display_name(e), total |-> e.total,
     weekly_avg |-> format_1f(e.weekly_avg), later_count |-> e.later_count,
     later_pct |-> format_1f(e.later_pct)]

\* float(value): the number a cell's text stands for, -1 for a text that
\* is no number (float raises ValueError).
float_of(value) ==
    CASE value = "538" -> 538
      [] OTHER -> -1

\* The names of the report that are no numbers, in the order of Python's
\* string comparison.
NameOrder == <<"Blog X", "Reader RSS", "example.com">>

\* sort_key(row): the number in the cell, also for a name that float()
\* accepts; any other name is compared as a string, here by its place in
\* NameOrder.
sort_key(row, sort_by) ==
    CASE sort_by = "feed" ->
             IF float_of(row.feed) # -1
             THEN [str |-> FALSE, v |-> float_of(row.feed)]
             ELSE [str |-> TRUE,
                   v |-> CHOOSE n \in 1..Len(NameOrder) : NameOrder[n] = row.feed]
      [] sort_by = "total"       -> [str |-> FALSE, v |-> row.total]
      [] sort_by = "weekly_avg"  -> [str |-> FALSE, v |-> row.weekly_avg]
      [] sort_by = "later_count" -> [str |-> FALSE, v |-> row.later_count]
      [] sort_by = "later_pct"   -> [str |-> FALSE, v |-> row.later_pct]

\* Sorting compares a str key with a float key when both occur among the
\* rows: "'<' not supported between instances of 'str' and 'float'".
sort_raises(rows, sort_by) ==
    \E i, j \in 1..Len(rows) :
        sort_key(rows[i], sort_by).str # sort_key(rows[j], sort_by).str

\* list.sort(reverse=True) is stable: a row goes in front of the rows with a
\* smaller key, behind the rows with an equal key that came before it.
goes_before(a, b) == a.v > b.v

RECURSIVE insert_row(_, _, _)
insert_row(sorted, row, sort_by) ==
    IF sorted = <<>> THEN <<row>>
    ELSE IF goes_before(sort_key(row, sort_by), sort_key(Head(sorted), sort_by))
         THEN <<row>> \o sorted
         ELSE <<Head(sorted)>> \o insert_row(Tail(sorted), row, sort_by)

RECURSIVE sort_rows(_, _, _)
\* table_data.sort(key=sort_key, reverse=True)
sort_rows(sorted, rows, sort_by) ==
    IF rows = <<>> THEN sorted
    ELSE sort_rows(insert_row(sorted, Head(rows), sort_by), Tail(rows), sort_by)

\* table_data before the sort
table_data(stats) == [i \in 1..Len(stats) |-> table_row(stats[i])]

\* The rows display_stats prints; with no feed it prints "No feeds found
\* matching criteria." and no table, and it prints no table when the sort
\* raises.
display_stats(stats, a) ==
    IF sort_raises(table_data(stats), a.sort_by) THEN <<>>
    ELSE sort_rows(<<>>, table_data(stats), a.sort_by)

\* main() of readwise-feed-stats has fetched a batch that is not empty.
InitStats ==
    /\ script = "feed_stats"
    /\ env = TRUE
    /\ args = Args(FALSE, "all", "rss", NoArg, NoArg, NoArg, NoArg)
    /\ source = <<>>
    /\ honoursTag = TRUE
    /\ STATE_FILE = <<>>
    /\ outfile = <<>>
    /\ run = 1
    /\ pc = "report"
    /\ crashpc = "none"
    /\ transferred_ids = {}
    /\ yielded = <<>>
    /\ fetchErr = FALSE
    /\ documents = <<>>
    /\ idx = 1
    /\ sent = <<>>
    /\ skipped = {}
    /\ new_transfers = 0
    /\ error_count = 0
    /\ reported = <<>>
    /\ opened = <<>>
    /\ log = <<>>
    /\ summary = NoSummary
    /\ tagged_before = {}
    /\ source_at_start = <<>>
    /\ swept_before = FALSE
    /\ effects = {"network"}
    /\ fetches = <<>>
    /\ stat_docs \in SeqsUpTo(StatDocs, MaxStatDocs) \ {<<>>}
    /\ stat_args \in StatArgs
    /\ feed_stats = <<>>
    /\ table = <<>>
    /\ spc = "input"

\* feed_stats = process_documents(documents, args)
ProcessDocuments ==
    /\ spc = "input"
    /\ feed_stats' = process_documents(stat_docs, stat_args)
    /\ spc' = "processed"
    /\ UNCHANGED <<conf, world, proc, run, pc, crashpc, hist, stat_docs, stat_args,
                   table>>

\* display_stats(feed_stats, time_unit, days, args); what it raises, main()
\* catches and prints as "Error: ...".
DisplayStats ==
    /\ spc = "processed"
    /\ table' = display_stats(feed_stats, stat_args)
    /\ spc' = (IF sort_raises(table_data(feed_stats), stat_args.sort_by)
               THEN "error" ELSE "displayed")
    /\ UNCHANGED <<conf, world, proc, run, pc, crashpc, hist, stat_docs, stat_args,
                   feed_stats>>

NextStats ==
    \/ ProcessDocuments
    \/ DisplayStats

StatsSpec == InitStats /\ [][NextStats]_vars

\* ------------------------------------------------------------------ claims

\* The position of the run, also of a killed one.
Where == IF pc = "crashed" THEN crashpc ELSE pc

\* A key that identifies an item: neither missing nor empty.
RealKey(key) == key \notin {NoId, ""}

\* The state file as it was when this run of a sync script started, and the
\* lines the run has added: every append goes with one new_transfers += 1.
FileAtStart == SubSeq(STATE_FILE, 1, Len(STATE_FILE) - new_transfers)
AddedLines == SubSeq(STATE_FILE, Len(STATE_FILE) - new_transfers + 1, Len(STATE_FILE))

\* C1: in a sync script, every identifier the run has added to the state
\* file belongs to an item whose forward succeeded in this run.
C1_AddedOnlyAfterSuccess ==
    script \in SyncScripts =>
        \A j \in 1..Len(AddedLines) :
            \E n \in 1..Len(sent) : sent[n].key = AddedLines[j] /\ sent[n].ok

\* C2: once the forward of an item with an identifier has succeeded, the
\* identifier is in the persisted set at every later point of the run (a
\* later item's turn, the summary, the end, a kill), the one exception
\* being the moment between the forward and its own append.
C2_PersistedRightAfterSuccess ==
    script \in SyncScripts =>
        \A n \in 1..Len(sent) :
            (/\ sent[n].ok
             /\ RealKey(sent[n].key)
             /\ ~(n = Len(sent) /\ Where = "append"))
            => sent[n].key \in load_transferred(STATE_FILE)

C2_Witness ==
    /\ script \in SyncScripts
    /\ pc = "crashed"
    /\ crashpc = "append"
    /\ Len(sent) = 2
    /\ sent[1].ok /\ RealKey(sent[1].key)
    /\ sent[1].key \in load_transferred(STATE_FILE)

\* C3: an item whose non-empty identifier was in the state file when the
\* run started is never forwarded in that run, and is classified as already
\* transferred when its turn has passed.
C3_DedupSound ==
    (script \in SyncScripts /\ Where \notin {"start", "load"}) =>
        \A i \in 1..Len(documents) :
            LET key == document_id(script, documents[i]) IN
            (RealKey(key) /\ key \in load_transferred(FileAtStart)) =>
                /\ \A n \in 1..Len(sent) : sent[n].i # i
                /\ i < idx => i \in skipped

C3_Witness ==
    /\ script \in SyncScripts
    /\ pc = "done"
    /\ Len(documents) = 2
    /\ skipped = {2}
    /\ Len(sent) = 1

\* C4: in the forwarding loops of the sync scripts and of the tagging
\* sweep, a failed forward does not end the loop: a run that ended by
\* itself after a failed forward has gone through the whole batch.
C4_FailureNeverAbortsBatch ==
    (/\ script \in SyncScripts \cup {"tag_filter"}
     /\ pc \in {"done", "died"}
     /\ \E n \in 1..Len(sent) : ~sent[n].ok)
    => idx > Len(documents)

\* C5: the count printed by the summary line of a sync script or of the
\* tagging sweep is the number of items whose forward succeeded.
C5_CountIsSuccesses ==
    (/\ script \in SyncScripts \cup {"tag_filter"}
     /\ ~args.dry_run
     /\ summary # NoSummary)
    => summary.count = Cardinality({n \in 1..Len(sent) : sent[n].ok})

Count(seq, x) == Cardinality({i \in 1..Len(seq) : seq[i] = x})

\* C6: the tagging sweep is idempotent: a run that follows a complete sweep
\* sends no tag update and leaves every document's tags as they were; a
\* run sends no tag update for a document that an earlier run has tagged,
\* every update it sends carries the target tag once, and no document of
\* the source ever carries the target tag more than once.
C6_TaggingIdempotent ==
    script = "tag_filter" =>
        /\ swept_before => (sent = <<>> /\ source = source_at_start)
        /\ \A n \in 1..Len(sent) :
              /\ sent[n].key \notin tagged_before
              /\ Count(sent[n].tags, args.add_tag) = 1
        /\ \A j \in 1..Len(source) : Count(source[j].tags, args.add_tag) <= 1
        /\ \A j \in 1..Len(source) :
              source[j].id \in tagged_before => HasTag(source[j], args.add_tag)

C6_Witness ==
    /\ script = "tag_filter"
    /\ run = 2
    /\ pc = "done"
    /\ Cardinality(tagged_before) = 2
    /\ swept_before
    /\ sent = <<>>
    /\ log = <<"already_tagged", "no_documents">>

\* C7: a run with --dry-run sends no request to a sink, opens no browser
\* tab, writes no output file and leaves the state file and the source
\* documents' tags as they were.
C7_DryRunNoEffects ==
    args.dry_run =>
        /\ sent = <<>>
        /\ opened = <<>>
        /\ outfile = <<>>
        /\ STATE_FILE = <<>>
        /\ source = source_at_start
        /\ tagged_before = {}

C7_Witness ==
    /\ args.dry_run
    /\ script \in {"tag_filter", "open_links"}
    /\ run = 2
    /\ pc = "done"
    /\ Len(reported) = 2
    /\ summary.count = 2

\* What a live run of the script acts on when the source delivers its
\* whole collection: the claim's filter predicates, evaluated on the source
\* as the run found it.
Targets ==
    CASE script = "tag_filter" ->
           {d.id : d \in {e \in Range(source_at_start) :
               /\ e.location = args.location
               /\ (args.category # <<>> => e.category \in Range(args.category))
               /\ (args.has_tag # NoArg => HasTag(e, args.has_tag))
               /\ ~HasTag(e, args.add_tag)}}
      [] script \in {"open_links", "export_links"} ->
           {d.id : d \in {e \in Range(source_at_start) :
               e.location = "later" /\ HasTag(e, args.tag)}}
      [] script = "feed_stats" ->
           {d.id : d \in {e \in Range(source_at_start) :
               /\ e.location \in Range(locations_to_fetch(args.location))
               /\ e.created = "recent"
               /\ e.category = args.category}}
      [] OTHER -> {}

\* A run that came to its end with the credentials set and no fetch error.
CleanEnd == pc = "done" /\ env /\ ~fetchErr

\* C8 as stated: in every script with --dry-run, the dry run reports
\* exactly the items the live run acts on.
C8_DryRunReportsAll ==
    (script \in DryRunScripts /\ args.dry_run /\ CleanEnd)
    => Range(reported) = Targets

\* C8 amended: in tag_filter and open_links the dry run reports exactly the
\* items a live run acts on, and a live run whose every forward succeeds
\* acts on exactly those; in export_links and feed_stats the dry run
\* prints the configuration and ends before any fetch.
C8_DryRunReportsOrConfigOnly ==
    /\ (script \in {"tag_filter", "open_links"} /\ CleanEnd /\ args.dry_run)
       => Range(reported) = Targets
    /\ (/\ script \in {"tag_filter", "open_links"} /\ CleanEnd /\ ~args.dry_run
        /\ \A n \in 1..Len(sent) : sent[n].ok)
       => {sent[n].key : n \in 1..Len(sent)} = Targets
    /\ (script \in {"export_links", "feed_stats"} /\ args.dry_run /\ Where # "start" /\ env)
       => /\ pc \in {"fetch", "done", "crashed"}
          /\ yielded = <<>> /\ reported = <<>>
          /\ pc = "done" => log = <<"dry_run_config">>

C8_Witness ==
    /\ script = "open_links"
    /\ args.dry_run
    /\ CleanEnd
    /\ reported = <<"a", "b">>
    /\ Targets = {"a", "b"}

\* C9: when the source raises after having delivered some items, the run
\* goes on with the items delivered.
C9_FetchKeepsYielded ==
    (fetchErr /\ yielded # <<>> /\ Where # "fetch") =>
        CASE script \in SyncScripts -> documents = yielded
          [] script = "tag_filter" ->
               documents = to_tag(has_tag_filter(
                   category_filter(yielded, args.category), args.has_tag), args.add_tag)
          [] script \in {"open_links", "export_links"} ->
               documents = tag_filter(yielded, args.tag)
          [] script = "feed_stats" ->
               documents = stats_filter(yielded, args.category)

\* C10: every item handed to a sink, opened or exported satisfies the
\* script's tag and category filters as evaluated locally on the item.
C10_ForwardedSatisfyFilter ==
    \A n \in 1..Len(sent) :
        (sent[n].ok /\ sent[n].i > 0) =>
            LET d == documents[sent[n].i] IN
            CASE script = "todoist" -> HasTag(d, "todoist")
              [] script = "tag_filter" ->
                   /\ (args.category # <<>> => d.category \in Range(args.category))
                   /\ (args.has_tag # NoArg => HasTag(d, args.has_tag))
              [] script \in {"open_links", "export_links"} -> HasTag(d, args.tag)
              [] OTHER -> TRUE

\* C11: in a sync script an item whose identifier is missing or empty is
\* never deduplicated: when its turn has passed it was forwarded, not
\* skipped, and a run that ended by itself after forwarding it has gone
\* through the items that follow it.
C11_UnidentifiableAlwaysNew ==
    script \in SyncScripts =>
        \A i \in 1..Len(documents) :
            documents[i].id \in {NoId, ""} =>
                /\ i < idx =>
                      /\ i \notin skipped
                      /\ \E n \in 1..Len(sent) : sent[n].i = i
                /\ (/\ pc \in {"done", "died"}
                    /\ i < Len(documents)
                    /\ \E n \in 1..Len(sent) : sent[n].i = i)
                   => idx > Len(documents)

\* C12: when a required credential is missing the run makes no network
\* call, does not touch the state file, and ends with the report of the
\* missing configuration.
C12_MissingConfigNoEffects ==
    ~env =>
        /\ effects = {}
        /\ pc \in {"done", "died"} => (pc = "done" /\ log = <<"missing_env">>)

\* C13: with the credentials set, no main() of the package ends in an
\* uncaught exception: every error of the fetch, of a forward or of the
\* state-file append is caught and the process ends normally.
C13_NoUncaughtException ==
    (env /\ script \in SyncScripts \cup DryRunScripts) => pc # "died"

RECURSIVE FirstNonEmpty(_)
\* The first value of a list of names that is not empty.
FirstNonEmpty(names) ==
    IF Head(names) # "" THEN Head(names) ELSE FirstNonEmpty(Tail(names))

\* The feed identity by the order of resolution: site name, source unless it
\* is the placeholder, domain of the URL, "unknown".
ResolvedIdentity(doc) ==
    FirstNonEmpty(<<doc.site_name,
                    IF doc.source = "Reader RSS" THEN "" ELSE doc.source,
                    netloc(doc.url),
                    "unknown">>)

\* The items of the batch that resolve to feed f.
ItemsOf(f) == {i \in 1..Len(stat_docs) : ResolvedIdentity(stat_docs[i]) = f}

\* The total that process_documents has counted under feed f.
CountedUnder(f) ==
    IF FeedIndex(feed_stats, f) = 0 THEN 0
    ELSE feed_stats[FeedIndex(feed_stats, f)].total

\* C14: in the result of process_documents every item of the batch is
\* counted under its resolved identity (site name, else source unless
\* "Reader RSS", else domain of the URL, else "unknown"), also the items
\* that resolve to "unknown"; feeds below --min-articles are not shown.
C14_CountedUnderIdentity ==
    spc # "input" =>
        \A i \in 1..Len(stat_docs) :
            LET f == ResolvedIdentity(stat_docs[i]) IN
            Cardinality(ItemsOf(f)) >= stat_args.min_articles
                => CountedUnder(f) = Cardinality(ItemsOf(f))

\* C14 (amended): every item that resolves to a site name, a source or a
\* domain is counted under that identity; an item that resolves to "unknown"
\* is counted under no feed, and the result has no feed "unknown".
C14_CountedUnlessUnknown ==
    spc # "input" =>
        /\ \A i \in 1..Len(stat_docs) :
               LET f == ResolvedIdentity(stat_docs[i]) IN
               (f # "unknown" /\ Cardinality(ItemsOf(f)) >= stat_args.min_articles)
                   => CountedUnder(f) = Cardinality(ItemsOf(f))
        /\ FeedIndex(feed_stats, "unknown") = 0
        /\ \A n \in 1..Len(feed_stats) : ItemsOf(feed_stats[n].feed_id) # {}

\* An item with no site name, source "Reader RSS" and URL
\* https://example.com/a has been counted under "example.com", next to an
\* item with none of the three.
C14_Witness ==
    /\ spc = "processed"
    /\ \E i \in 1..Len(stat_docs) :
           /\ stat_docs[i].site_name = ""
           /\ stat_docs[i].source = "Reader RSS"
           /\ stat_docs[i].url = "https://example.com/a"
    /\ \E i \in 1..Len(stat_docs) :
           /\ stat_docs[i].site_name = ""
           /\ stat_docs[i].source = ""
           /\ stat_docs[i].url = ""
    /\ CountedUnder("example.com") = 1
    /\ Len(feed_stats) = 1

RECURSIVE SumOver(_, _)
\* The sum of the counts of the buckets in keys.
SumOver(weeks, keys) ==
    IF keys = {} THEN 0
    ELSE LET k == CHOOSE x \in keys : TRUE
         IN weeks[k] + SumOver(weeks, keys \ {k})

\* C15: for every feed in the result of process_documents, total is the
\* number of items of the batch resolved to the feed, later_count the
\* number of those in location "later", the week buckets partition those
\* items by (year, week) and their counts sum to the number of items, and
\* the weekly average is total divided by max(1, number of weeks).
C15_PerFeedAggregation ==
    spc # "input" =>
        \A n \in 1..Len(feed_stats) :
            LET e     == feed_stats[n]
                items == ItemsOf(e.feed_id)
                nw    == Cardinality(DOMAIN e.weeks)
            IN /\ e.total = Cardinality(items)
               /\ e.later_count =
                      Cardinality({i \in items : stat_docs[i].location = "later"})
               /\ DOMAIN e.weeks = {week_key(stat_docs[i].created) : i \in items}
               /\ \A w \in DOMAIN e.weeks :
                      e.weeks[w] = Cardinality({i \in items :
                                       week_key(stat_docs[i].created) = w})
               /\ SumOver(e.weeks, DOMAIN e.weeks) = Cardinality(items)
               /\ e.weekly_avg.num * (IF nw > 1 THEN nw ELSE 1)
                      = e.total * e.weekly_avg.den

\* Three items of "Blog X", two of week 1 and one of week 2 in location
\* "later", gave total 3, two weeks, average 3/2 printed as 1.5, later_count
\* 1 and 33.3%.
C15_Witness ==
    /\ spc = "displayed"
    /\ Len(stat_docs) = 3
    /\ \A i \in 1..3 : stat_docs[i].site_name = "Blog X"
    /\ <<stat_docs[1].created, stat_docs[2].created, stat_docs[3].created>>
           = <<11, 11, 12>>
    /\ <<stat_docs[1].location, stat_docs[2].location, stat_docs[3].location>>
           = <<"archive", "archive", "later">>
    /\ Len(feed_stats) = 1
    /\ feed_stats[1].feed_id = "Blog X"
    /\ feed_stats[1].total = 3
    /\ DOMAIN feed_stats[1].weeks = {<<2026, 1>>, <<2026, 2>>}
    /\ feed_stats[1].weekly_avg = Frac(3, 2)
    /\ feed_stats[1].later_count = 1
    /\ table[1].weekly_avg = 15
    /\ table[1].later_pct = 333

\* The place of the feed of a row in feed_stats, the order of insertion.
Inserted(row) == FeedIndex(feed_stats, row.feed_id)

\* C16: whatever --sort-by is, display_stats prints the rows of all feeds of
\* the result in descending order of the column's value, and two rows with
\* the same value in that column in the order in which their feeds were
\* inserted.
C16_RowsSortedStable ==
    spc \notin {"input", "processed"} =>
        /\ Len(table) = Len(feed_stats)
        /\ \A n \in 1..Len(feed_stats) :
               \E i \in 1..Len(table) : table[i].feed_id = feed_stats[n].feed_id
        /\ \A i, j \in 1..Len(table) :
               i < j =>
                   LET ki == sort_key(table[i], stat_args.sort_by)
                       kj == sort_key(table[j], stat_args.sort_by)
                   IN /\ ki.v >= kj.v
                      /\ ki.v = kj.v => Inserted(table[i]) < Inserted(table[j])

\* C17: no step of a run, and no start of a new run, takes an identifier
\* out of the persisted set: the set read from the state file after a step
\* contains the set read from it before the step.
C17_ProcessedSetMonotone ==
    [][load_transferred(STATE_FILE) \subseteq load_transferred(STATE_FILE')]_vars

\* A second run of a sync script that found identifiers in the state file
\* has had a failed forward and has added an identifier of its own.
C17_Witness ==
    /\ script \in SyncScripts
    /\ run = 2
    /\ load_transferred(FileAtStart) # {}
    /\ \E n \in 1..Len(sent) : ~sent[n].ok
    /\ new_transfers > 0
    /\ load_transferred(FileAtStart) # load_transferred(STATE_FILE)

RECURSIVE AllGot(_)
\* What the fetches of the locations yielded, one location after the other.
AllGot(fs) == IF fs = <<>> THEN <<>> ELSE Head(fs).got \o AllGot(Tail(fs))

\* The warnings fetch_documents has printed.
Warnings == SelectSeq2(log, {"warn_pagination", "warn_fetch"})

\* C18: in readwise-feed-stats a failed fetch of a location prints one
\* warning, the combined batch holds what every location yielded, before an
\* error too, in the order of the locations, and a run that has left
\* fetch_documents has fetched every location of the list.
C18_FetchErrorsIsolated ==
    (script = "feed_stats" /\ ~args.dry_run /\ env) =>
        /\ yielded = AllGot(fetches)
        /\ Len(Warnings) = Cardinality({n \in 1..Len(fetches) : fetches[n].err})
        /\ \A n \in 1..Len(fetches) :
               fetches[n].location = locations_to_fetch(args.location)[n]
        /\ Where \in {"report", "done"} =>
               Len(fetches) = Len(locations_to_fetch(args.location))

\* The fetch of "later" failed after it had yielded an item, the fetch of
\* "archive" that followed yielded an item, and both items are in the batch.
C18_Witness ==
    /\ script = "feed_stats"
    /\ args.location = "all"
    /\ pc = "report"
    /\ Len(fetches) = 4
    /\ fetches[2].err /\ fetches[2].got # <<>>
    /\ ~fetches[3].err /\ fetches[3].got # <<>>
    /\ Len(yielded) = 2

\* C19: in one run of a sync script no identifier is forwarded twice, also
\* when the fetched batch holds the identifier more than once.
C19_ForwardedOncePerRun ==
    script \in SyncScripts =>
        \A m, n \in 1..Len(sent) :
            (m # n /\ RealKey(sent[m].key)) => sent[m].key # sent[n].key

\* C20: when a sync run has printed its summary, the "Total tracked" number
\* is the number of distinct identifiers in the state file.
C20_TotalTrackedIsFileSize ==
    (script \in SyncScripts /\ summary # NoSummary) =>
        summary.total = Cardinality(load_transferred(STATE_FILE))

\* The document of the source, as the run found it, that has identifier id.
AsFetched(id) ==
    source_at_start[CHOOSE j \in 1..Len(source_at_start) :
                        source_at_start[j].id = id]

\* C21: every tag update the sweep sends goes to a document that passes
\* the location, category and has-tag filters and does not carry the target
\* tag, and its tag list is the document's tags as fetched, in order,
\* followed by the target tag; no document loses a tag, and a document that
\* got no successful update keeps its tags.
C21_SweepOnlyAddsTargetTag ==
    script = "tag_filter" =>
        /\ \A n \in 1..Len(sent) :
               /\ sent[n].key \in Targets
               /\ sent[n].tags = AsFetched(sent[n].key).tags \o <<args.add_tag>>
        /\ Len(source) = Len(source_at_start)
        /\ \A j \in 1..Len(source) :
               /\ source[j].id = source_at_start[j].id
               /\ SubSeq(source[j].tags, 1, Len(source_at_start[j].tags))
                      = source_at_start[j].tags
               /\ (\A n \in 1..Len(sent) :
                       ~(sent[n].ok /\ sent[n].key = source[j].id))
                  => source[j] = source_at_start[j]

\* A live sweep has tagged a document that carried the tag "x", next to a
\* document of another location that it left alone.
C21_Witness ==
    /\ script = "tag_filter"
    /\ ~args.dry_run
    /\ pc = "done"
    /\ Len(sent) = 1
    /\ sent[1].ok
    /\ sent[1].tags = <<"x", "review">>
    /\ Len(source) = 2
    /\ \E j \in 1..2 :
           /\ source[j].location = "archive"
           /\ source[j].tags = <<"x">>
           /\ source[j] = source_at_start[j]
    /\ \E j \in 1..2 : source[j].tags = <<"x", "review">>


====
